---- MODULE Spec2Model ----
(***************************************************************************)
(* Verification model of the exercism solutions in this repository:        *)
(*   xorcism     - repeating-key XOR munger with reader / writer adapters  *)
(*   book-store  - discount optimiser (memoised search)                    *)
(***************************************************************************)
EXTENDS Integers, Sequences, FiniteSets, TLC

VARIABLES
    key,        \* Xorcism.key : the borrowed key bytes
    pos,        \* Xorcism.pos : the cursor
    mode,       \* who owns the munger: "raw", "lazy", "reader", "writer", "panicked", "failed"
    iter,       \* remaining input of the live iterator returned by munge
    src,        \* bytes the underlying reader has not yet yielded
    sink,       \* bytes the underlying writer has accepted
    pending,    \* the part of the caller's input not yet reported as written
    call,       \* the last call made on the munger / adapter, as the caller saw it
    inAll,      \* every byte transformed since the munger was created, in order
    outAll,     \* the corresponding transformed bytes
    src0,       \* the source as it was when the reader wrapped it
    wrapPos,    \* the cursor when the adapter wrapped the munger
    delivered,  \* the non-empty chunks the reader adapter delivered, in order
    orig,       \* the whole input the caller set out to write
    inv,        \* one buffer sent through two mungers built from the same key
    twice,      \* one munger fed the same buffer contents twice in a row
    book,       \* the book-store computation
    bs,         \* one call of binary-search find, loop iteration by iteration
    clock       \* a Clock value and the history of how it was built

xvars == <<key, pos, mode, iter, src, sink, pending, call,
           inAll, outAll, src0, wrapPos, delivered, orig>>
vars == <<key, pos, mode, iter, src, sink, pending, call,
          inAll, outAll, src0, wrapPos, delivered, orig, inv, twice, book, bs, clock>>

-----------------------------------------------------------------------------
(* Bounds and data sets *)

MaxKeyLen == 2
MaxTotal == 4

KeyBytes == {1, 2}
DataBytes == {5, 10}
ExampleSource == <<5, 10, 15, 20>>
Filler == 170
\* io::Error values, told apart from byte counts by their sign
IoErrors == {-4, -32}
Panic == -1

SeqsUpTo(S, n) == UNION {[1..m -> S] : m \in 0..n}

Keys == SeqsUpTo(KeyBytes, MaxKeyLen)

Min(a, b) == IF a <= b THEN a ELSE b

Tail_from(s, m) == SubSeq(s, m + 1, Len(s))

-----------------------------------------------------------------------------
(* Xorcism : pure parts *)

XorAsAdd(a, b) == (a + b) % 256

\* one bit of the u8 `^` operator, w the bit's weight
XorBit(a, b, w) == ((((a \div w) % 2) + ((b \div w) % 2)) % 2) * w

\* the u8 `^` operator
Xor(a, b) ==
    XorBit(a, b, 1) + XorBit(a, b, 2) + XorBit(a, b, 4) + XorBit(a, b, 8)
  + XorBit(a, b, 16) + XorBit(a, b, 32) + XorBit(a, b, 64) + XorBit(a, b, 128)

KeyByteAtOffByOne(k, p) ==
    IF Len(k) = 0 THEN Panic ELSE k[((p + 1) % Len(k)) + 1]

KeyByteAtSilent(k, p) ==
    IF Len(k) = 0 THEN 0 ELSE k[(p % Len(k)) + 1]

\* self.key[self.pos % self.key.len()] ; `% 0` panics
KeyByteAt(k, p) ==
    IF Len(k) = 0 THEN Panic ELSE k[(p % Len(k)) + 1]

\* Xorcism::new
Xorcism_new(k) == [key |-> k, pos |-> 0]

\* the loop of munge_in_place from index i on
RECURSIVE munge_loop(_, _, _, _)
munge_loop(k, p, data, i) ==
    IF i > Len(data) THEN [panic |-> FALSE, pos |-> p, data |-> data]
    ELSE LET kb == KeyByteAt(k, p) IN
         IF kb = Panic THEN [panic |-> TRUE, pos |-> p, data |-> data]
         ELSE munge_loop(k, p + 1, [data EXCEPT ![i] = Xor(@, kb)], i + 1)

munge_in_place_no_advance(k, p, data) ==
    [munge_loop(k, p, data, 1) EXCEPT !.pos = p]

munge_in_place_restart(k, p, data) ==
    LET r == munge_loop(k, 0, data, 1) IN [r EXCEPT !.pos = p + r.pos]

\* Xorcism::munge_in_place
munge_in_place(k, p, data) == munge_loop(k, p, data, 1)

munge_eager(k, p, data) == [pos |-> p + Len(data), iter |-> data]

\* Xorcism::munge : builds the lazy iterator, touches nothing
munge(k, p, data) == [pos |-> p, iter |-> data]

\* the closure of munge, run once per element drawn
munge_next(k, p, byte) ==
    LET key_byte == KeyByteAt(k, p) IN
    IF key_byte = Panic THEN [panic |-> TRUE, pos |-> p, out |-> byte]
    ELSE [panic |-> FALSE, pos |-> p + 1, out |-> Xor(byte, key_byte)]

-----------------------------------------------------------------------------
(* I/O adapters : pure parts *)

IsErr(r) == r \in IoErrors

XorReader_read_whole_buf(k, p, buf, inner) ==
    IF IsErr(inner) THEN [panic |-> FALSE, pos |-> p, buf |-> buf, ret |-> inner]
    ELSE LET m == munge_in_place(k, p, buf) IN
         [panic |-> m.panic, pos |-> m.pos, buf |-> m.data, ret |-> inner]

XorReader_read_swallow(k, p, buf, inner) ==
    LET n == IF IsErr(inner) THEN 0 ELSE inner
        m == munge_in_place(k, p, SubSeq(buf, 1, n)) IN
    [panic |-> m.panic, pos |-> m.pos,
     buf |-> m.data \o Tail_from(buf, n), ret |-> n]

\* XorReader::read, given the buffer as the underlying read left it and
\* what the underlying read returned (an error or the count n)
XorReader_read(k, p, buf, inner) ==
    IF IsErr(inner) THEN [panic |-> FALSE, pos |-> p, buf |-> buf, ret |-> inner]
    ELSE LET n == inner
             m == munge_in_place(k, p, SubSeq(buf, 1, n)) IN
         [panic |-> m.panic, pos |-> m.pos,
          buf |-> m.data \o Tail_from(buf, n), ret |-> n]

StackBufferLen == 1024

\* XorWriter::write, given the caller's buffer and how the underlying writer
\* answers: an error, or the most bytes it accepts on this call
XorWriter_write(k, p, buf, accept) ==
    LET len == Min(Len(buf), StackBufferLen)
        m == munge_in_place(k, p, SubSeq(buf, 1, len)) IN
    IF m.panic THEN [panic |-> TRUE, pos |-> m.pos, len |-> len,
                     staged |-> m.data, written |-> <<>>, ret |-> 0]
    ELSE IF IsErr(accept)
         THEN [panic |-> FALSE, pos |-> m.pos, len |-> len,
               staged |-> m.data, written |-> <<>>, ret |-> accept]
         ELSE LET n == Min(accept, len) IN
              [panic |-> FALSE, pos |-> m.pos, len |-> len,
               staged |-> m.data, written |-> SubSeq(m.data, 1, n), ret |-> n]

-----------------------------------------------------------------------------
(* Xorcism : the munger and its adapters as a state machine *)

FillerBuf(n) == [slot \in 1..n |-> Filler]

Room == MaxTotal - Len(inAll)

NoCall == [op |-> "new", pos0 |-> 0, arg |-> <<>>, res |-> <<>>,
           ret |-> 0, panic |-> FALSE, inner |-> 0, want |-> 0]

XIdle ==
    /\ key = <<>> /\ pos = 0 /\ mode = "idle" /\ iter = <<>> /\ src = <<>>
    /\ sink = <<>> /\ pending = <<>> /\ call = NoCall /\ inAll = <<>>
    /\ outAll = <<>> /\ src0 = <<>> /\ wrapPos = 0 /\ delivered = <<>>
    /\ orig = <<>>

InvIdle == inv = [pc |-> "idle"]

TwiceIdle == twice = [pc |-> "idle"]

BookIdle == book = [pc |-> "idle"]

FindIdle == bs = [pc |-> "idle"]

ClockIdle == clock = [pc |-> "idle"]

\* let m = Xorcism::new(&k)
XInit ==
    /\ \E k \in Keys : /\ key = Xorcism_new(k).key
                       /\ pos = Xorcism_new(k).pos
    /\ mode = "raw"
    /\ iter = <<>> /\ src = <<>> /\ sink = <<>> /\ pending = <<>>
    /\ call = NoCall
    /\ inAll = <<>> /\ outAll = <<>> /\ src0 = <<>> /\ wrapPos = 0
    /\ delivered = <<>> /\ orig = <<>>

Init == XInit /\ InvIdle /\ TwiceIdle /\ BookIdle /\ FindIdle /\ ClockIdle

\* m.munge_in_place(&mut data)
MungeInPlace ==
    /\ mode = "raw"
    /\ \E data \in SeqsUpTo(DataBytes, Room) :
         \E r \in {munge_in_place(key, pos, data)} :
         /\ pos' = r.pos
         /\ call' = [op |-> "munge_in_place", pos0 |-> pos, arg |-> data,
                     res |-> r.data, ret |-> 0, panic |-> r.panic,
                     inner |-> 0, want |-> Len(data)]
         /\ mode' = IF r.panic THEN "panicked" ELSE "raw"
         /\ inAll' = IF r.panic THEN inAll ELSE inAll \o data
         /\ outAll' = IF r.panic THEN outAll ELSE outAll \o r.data
    /\ UNCHANGED <<key, iter, src, sink, pending, src0, wrapPos, delivered, orig, inv, twice, book, bs, clock>>

\* let it = m.munge(data)
Munge ==
    /\ mode = "raw"
    /\ \E data \in SeqsUpTo(DataBytes, Room) :
         \E r \in {munge(key, pos, data)} :
         /\ pos' = r.pos
         /\ iter' = r.iter
         /\ call' = [op |-> "munge", pos0 |-> pos, arg |-> data, res |-> <<>>,
                     ret |-> 0, panic |-> FALSE, inner |-> 0, want |-> 0]
    /\ mode' = "lazy"
    /\ UNCHANGED <<key, src, sink, pending, inAll, outAll, src0, wrapPos,
                   delivered, orig, inv, twice, book, bs, clock>>

\* it.next() on a non-exhausted iterator
IterNext ==
    /\ mode = "lazy"
    /\ iter # <<>>
    /\ \E r \in {munge_next(key, pos, Head(iter))} :
         /\ pos' = r.pos
         /\ mode' = IF r.panic THEN "panicked" ELSE "lazy"
         /\ iter' = IF r.panic THEN iter ELSE Tail(iter)
         /\ call' = IF r.panic
                    THEN [call EXCEPT !.panic = TRUE, !.want = 1]
                    ELSE [call EXCEPT !.res = Append(@, r.out), !.want = 1]
         /\ inAll' = IF r.panic THEN inAll ELSE Append(inAll, Head(iter))
         /\ outAll' = IF r.panic THEN outAll ELSE Append(outAll, r.out)
    /\ UNCHANGED <<key, src, sink, pending, src0, wrapPos, delivered, orig, inv, twice, book, bs, clock>>

\* drop(it) : the iterator is discarded, drained or not
IterDrop ==
    /\ mode = "lazy"
    /\ mode' = "raw"
    /\ iter' = <<>>
    /\ UNCHANGED <<key, pos, src, sink, pending, call, inAll, outAll, src0,
                   wrapPos, delivered, orig, inv, twice, book, bs, clock>>

\* the sources a reader may wrap
Sources == SeqsUpTo(DataBytes, Room) \cup {ExampleSource}

\* let r = m.reader(source)
Reader ==
    /\ mode = "raw"
    /\ \E s \in Sources : src' = s /\ src0' = s
    /\ mode' = "reader"
    /\ wrapPos' = pos
    /\ delivered' = <<>>
    /\ UNCHANGED <<key, pos, iter, sink, pending, call, inAll, outAll, orig, inv, twice, book, bs, clock>>

\* what self.reader.read(buf) may do with a buffer of capacity cap: fail, or
\* copy the next n bytes of the source into buf[..n]
InnerReads(cap) == IoErrors \cup (0..Min(cap, Len(src)))

\* the buffers the caller reads into, by capacity
BufCaps == 0..(Len(src) + 1)

\* a read call: the capacity of the caller's buffer and what the underlying
\* read does with it; the buffer is filled or has one spare slot
ReadCalls ==
    {c \in BufCaps \X InnerReads(Len(src)) :
        IF IsErr(c[2]) THEN c[1] = 1 ELSE c[1] \in {c[2], c[2] + 1}}

\* r.read(&mut buf)
Read ==
    /\ mode = "reader"
    /\ \E c \in ReadCalls :
         LET cap == c[1]
             inner == c[2]
             n == IF IsErr(inner) THEN 0 ELSE inner
             buf0 == FillerBuf(cap)
             buf1 == SubSeq(src, 1, n) \o FillerBuf(cap - n)
         IN \E r \in {XorReader_read(key, pos, buf1, inner)} :
         /\ src' = Tail_from(src, n)
         /\ pos' = r.pos
         /\ mode' = IF r.panic THEN "panicked" ELSE "reader"
         /\ call' = [op |-> "read", pos0 |-> pos, arg |-> buf0, res |-> r.buf,
                     ret |-> r.ret, panic |-> r.panic,
                     inner |-> inner, want |-> n]
         /\ inAll' = IF r.panic THEN inAll ELSE inAll \o SubSeq(buf1, 1, n)
         /\ outAll' = IF r.panic THEN outAll ELSE outAll \o SubSeq(r.buf, 1, n)
         /\ delivered' = IF r.panic \/ IsErr(r.ret) \/ r.ret = 0 THEN delivered
                         ELSE Append(delivered, SubSeq(r.buf, 1, r.ret))
    /\ UNCHANGED <<key, iter, sink, pending, src0, wrapPos, orig, inv, twice, book, bs, clock>>

\* let w = m.writer(sink)
Writer ==
    /\ mode = "raw"
    /\ \E d \in SeqsUpTo(DataBytes, Room) : orig' = d /\ pending' = d
    /\ mode' = "writer"
    /\ wrapPos' = pos
    /\ sink' = <<>>
    /\ UNCHANGED <<key, pos, iter, src, call, inAll, outAll, src0, delivered, inv, twice, book, bs, clock>>

\* what self.writer.write(..) may answer when offered up to n bytes
InnerWrites(n) == IoErrors \cup (0..n)

\* w.write(pending) ; on Ok(m) the caller comes back with &pending[m..],
\* on Err or Ok(0) it gives up (as write_all does)
Write ==
    /\ mode = "writer"
    /\ pending # <<>>
    /\ Min(Len(pending), StackBufferLen) <= Room
    /\ \E accept \in InnerWrites(Len(pending)) :
         \E r \in {XorWriter_write(key, pos, pending, accept)} :
         /\ pos' = r.pos
         /\ mode' = IF r.panic THEN "panicked"
                    ELSE IF IsErr(r.ret) \/ r.ret = 0 THEN "failed"
                    ELSE "writer"
         /\ call' = [op |-> "write", pos0 |-> pos, arg |-> pending,
                     res |-> r.staged, ret |-> r.ret, panic |-> r.panic,
                     inner |-> accept, want |-> r.len]
         /\ sink' = sink \o r.written
         /\ pending' = IF r.panic \/ IsErr(r.ret) THEN pending
                       ELSE Tail_from(pending, r.ret)
         /\ inAll' = IF r.panic THEN inAll ELSE inAll \o SubSeq(pending, 1, r.len)
         /\ outAll' = IF r.panic THEN outAll ELSE outAll \o r.staged
    /\ UNCHANGED <<key, iter, src, src0, wrapPos, delivered, orig, inv, twice, book, bs, clock>>

Next ==
    \/ MungeInPlace
    \/ Munge
    \/ IterNext
    \/ IterDrop
    \/ Reader
    \/ Read
    \/ Writer
    \/ Write

Spec == Init /\ [][Next]_vars

-----------------------------------------------------------------------------
(* Xorcism : one buffer sent through two mungers built from the same key *)

NonEmptyKeys == Keys \ {<<>>}

InvInit ==
    /\ \E k \in NonEmptyKeys : \E d \in SeqsUpTo(DataBytes, MaxTotal) :
         inv = [pc |-> "start", key |-> k, orig |-> d, buf |-> d,
                pos1 |-> 0, pos2 |-> 0]
    /\ XIdle
    /\ TwiceIdle
    /\ BookIdle
    /\ FindIdle
    /\ ClockIdle

\* let mut a = Xorcism::new(&k); a.munge_in_place(&mut buf)
InvFirst ==
    /\ inv.pc = "start"
    /\ \E a \in {Xorcism_new(inv.key)} :
       \E r \in {munge_in_place(a.key, a.pos, inv.buf)} :
         inv' = [inv EXCEPT !.pc = "munged", !.buf = r.data, !.pos1 = r.pos]
    /\ UNCHANGED <<xvars, twice, book, bs, clock>>

\* let mut b = Xorcism::new(&k); b.munge_in_place(&mut buf)
InvSecond ==
    /\ inv.pc = "munged"
    /\ \E b \in {Xorcism_new(inv.key)} :
       \E r \in {munge_in_place(b.key, b.pos, inv.buf)} :
         inv' = [inv EXCEPT !.pc = "done", !.buf = r.data, !.pos2 = r.pos]
    /\ UNCHANGED <<xvars, twice, book, bs, clock>>

InvNext ==
    \/ InvFirst
    \/ InvSecond

SpecInvolution == InvInit /\ [][InvNext]_vars

-----------------------------------------------------------------------------
(* Xorcism : one munger fed the same buffer contents twice in a row *)

TwiceInit ==
    /\ \E k \in NonEmptyKeys : \E d \in SeqsUpTo(DataBytes, MaxTotal) :
         twice = [pc |-> "new", key |-> Xorcism_new(k).key,
                  pos |-> Xorcism_new(k).pos, data |-> d, pos0 |-> 0,
                  out1 |-> <<>>, out2 |-> <<>>]
    /\ XIdle
    /\ InvIdle
    /\ BookIdle
    /\ FindIdle
    /\ ClockIdle

\* earlier use of the munger: m.munge_in_place(&mut other)
TwiceEarlier ==
    /\ twice.pc = "new"
    /\ \E other \in SeqsUpTo(DataBytes, MaxKeyLen) \ {<<>>} :
       \E r \in {munge_in_place(twice.key, twice.pos, other)} :
         twice' = [twice EXCEPT !.pc = "used", !.pos = r.pos, !.pos0 = r.pos]
    /\ UNCHANGED <<xvars, inv, book, bs, clock>>

\* let mut a = data.clone(); m.munge_in_place(&mut a)
TwiceFirst ==
    /\ twice.pc \in {"new", "used"}
    /\ \E r \in {munge_in_place(twice.key, twice.pos, twice.data)} :
         twice' = [twice EXCEPT !.pc = "once", !.pos = r.pos, !.out1 = r.data]
    /\ UNCHANGED <<xvars, inv, book, bs, clock>>

\* let mut b = data.clone(); m.munge_in_place(&mut b)
TwiceSecond ==
    /\ twice.pc = "once"
    /\ \E r \in {munge_in_place(twice.key, twice.pos, twice.data)} :
         twice' = [twice EXCEPT !.pc = "done", !.pos = r.pos, !.out2 = r.data]
    /\ UNCHANGED <<xvars, inv, book, bs, clock>>

TwiceNext ==
    \/ TwiceEarlier
    \/ TwiceFirst
    \/ TwiceSecond

SpecTwice == TwiceInit /\ [][TwiceNext]_vars

-----------------------------------------------------------------------------
(* book-store *)

MaxBooks == 8

Titles == 1..5

\* sort_by(|a, b| b.cmp(a)) : insert x into a descending sequence
InsertDesc(s, x) ==
    LET before == {j \in 1..Len(s) : s[j] >= x}
        n == Cardinality(before) IN
    SubSeq(s, 1, n) \o <<x>> \o SubSeq(s, n + 1, Len(s))

RECURSIVE SortDesc(_)
SortDesc(s) ==
    IF Len(s) = 0 THEN <<>> ELSE InsertDesc(SortDesc(Tail(s)), Head(s))

\* group_price ; the match has no arm for other sizes
group_price(size) ==
    CASE size = 1 -> 800
      [] size = 2 -> 1520
      [] size = 3 -> 2160
      [] size = 4 -> 2560
      [] size = 5 -> 3000

\* u32::MAX, the starting value of min_price (stands above every price)
U32Max == 2147483647

RECURSIVE find_min(_, _)
RECURSIVE find_min_loop(_, _, _, _, _)

\* `next` : book_groups with one copy taken from each of the first
\* group_size entries
next_groups(book_groups, group_size) ==
    [slot \in 1..5 |-> IF slot <= group_size THEN book_groups[slot] - 1
                       ELSE book_groups[slot]]

\* one pass of the loop body, r being what the recursive call returned
find_min_body(book_groups, group_size, max_group, min_price, r) ==
    LET price == group_price(group_size) + r.price IN
    IF price < min_price
    THEN find_min_loop(book_groups, group_size + 1, max_group, price, r.cache)
    ELSE find_min_loop(book_groups, group_size + 1, max_group, min_price, r.cache)

\* the `for group_size in 1..=max_group` loop of find_min
find_min_loop(book_groups, group_size, max_group, min_price, cache) ==
    IF group_size > max_group
    THEN [price |-> min_price, cache |-> cache]
    ELSE find_min_body(book_groups, group_size, max_group, min_price,
                       find_min(next_groups(book_groups, group_size), cache))

\* max_group : how many titles are left
max_group_of(book_groups) == Cardinality({i \in 1..5 : book_groups[i] > 0})

\* cache.insert(book_groups, min_price); min_price
find_min_insert(book_groups, r) ==
    [price |-> r.price, cache |-> (book_groups :> r.price) @@ r.cache]

find_min_sorted_greedy(book_groups, cache) ==
    IF \A i \in 1..5 : book_groups[i] = 0 THEN [price |-> 0, cache |-> cache]
    ELSE IF book_groups \in DOMAIN cache
    THEN [price |-> cache[book_groups], cache |-> cache]
    ELSE find_min_insert(book_groups,
            find_min_loop(book_groups, max_group_of(book_groups),
                          max_group_of(book_groups), U32Max, cache))

\* find_min once the counts are canonical (sorted descending)
find_min_sorted(book_groups, cache) ==
    IF \A i \in 1..5 : book_groups[i] = 0 THEN [price |-> 0, cache |-> cache]
    ELSE IF book_groups \in DOMAIN cache
    THEN [price |-> cache[book_groups], cache |-> cache]
    ELSE find_min_insert(book_groups,
            find_min_loop(book_groups, 1, max_group_of(book_groups),
                          U32Max, cache))

\* find_min ; the cache is threaded through the calls
find_min(counts, cache) == find_min_sorted(SortDesc(counts), cache)

\* the counting loop of lowest_price
RECURSIVE book_counts(_)
book_counts(books) ==
    IF Len(books) = 0 THEN <<0, 0, 0, 0, 0>>
    ELSE [book_counts(Tail(books)) EXCEPT ![Head(books)] = @ + 1]

EmptyCache == [c \in {} |-> 0]

\* lowest_price
lowest_price(books) == find_min(book_counts(books), EmptyCache).price

\* a basket with cv[t] copies of title t, title by title
RECURSIVE Basket(_, _)
Basket(cv, t) ==
    IF t > 5 THEN <<>>
    ELSE [copy \in 1..cv[t] |-> t] \o Basket(cv, t + 1)

Total(cv) == cv[1] + cv[2] + cv[3] + cv[4] + cv[5]

Baskets ==
    {Basket(cv, 1) : cv \in {c \in [Titles -> 0..MaxBooks] : Total(c) <= MaxBooks}}

BookInit ==
    /\ \E b \in Baskets : book = [pc |-> "start", books |-> b, price |-> 0]
    /\ XIdle
    /\ InvIdle
    /\ TwiceIdle
    /\ FindIdle
    /\ ClockIdle

\* lowest_price(&books)
LowestPrice ==
    /\ book.pc = "start"
    /\ book' = [book EXCEPT !.pc = "done", !.price = lowest_price(book.books)]
    /\ UNCHANGED <<xvars, inv, twice, bs, clock>>

BookNext ==
    \/ LowestPrice

SpecBook == BookInit /\ [][BookNext]_vars

-----------------------------------------------------------------------------
(* binary-search : find *)

MaxArrayLen == 4

ArrayValues == 1..3

KeyValues == 0..4

Arrays == SeqsUpTo(ArrayValues, MaxArrayLen)

\* Option<usize>
None == <<>>

Some(idx) == <<idx>>

\* the loop body with l = m in place of l = m + 1
find_body_no_advance(ary, k, l, r) ==
    LET m == (l + r) \div 2 IN
    IF m >= Len(ary)
    THEN [panic |-> TRUE, done |-> TRUE, ret |-> None, l |-> l, r |-> r]
    ELSE IF ary[m + 1] = k
    THEN [panic |-> FALSE, done |-> TRUE, ret |-> Some(m), l |-> l, r |-> r]
    ELSE IF k < ary[m + 1]
    THEN [panic |-> FALSE, done |-> FALSE, ret |-> None, l |-> l, r |-> m]
    ELSE [panic |-> FALSE, done |-> FALSE, ret |-> None, l |-> m, r |-> r]

\* one pass through the body of `while l < r`; ary[m] panics out of bounds
find_body(ary, k, l, r) ==
    LET m == (l + r) \div 2 IN
    IF m >= Len(ary)
    THEN [panic |-> TRUE, done |-> TRUE, ret |-> None, l |-> l, r |-> r]
    ELSE IF ary[m + 1] = k
    THEN [panic |-> FALSE, done |-> TRUE, ret |-> Some(m), l |-> l, r |-> r]
    ELSE IF k < ary[m + 1]
    THEN [panic |-> FALSE, done |-> FALSE, ret |-> None, l |-> l, r |-> m]
    ELSE [panic |-> FALSE, done |-> FALSE, ret |-> None, l |-> m + 1, r |-> r]

\* find(array, key) entered: l = 0, r = ary.len()
FindInit ==
    /\ \E a \in Arrays : \E k \in KeyValues :
         bs = [pc |-> "loop", ary |-> a, key |-> k, l |-> 0, r |-> Len(a),
               ret |-> None, panic |-> FALSE, iters |-> 0]
    /\ XIdle
    /\ InvIdle
    /\ TwiceIdle
    /\ BookIdle
    /\ ClockIdle

\* the loop condition holds: one iteration, which returns Some(m) or narrows
FindIterate ==
    /\ bs.pc = "loop"
    /\ bs.l < bs.r
    /\ \E step \in {find_body(bs.ary, bs.key, bs.l, bs.r)} :
         bs' = [bs EXCEPT !.pc = IF step.done THEN "done" ELSE "loop",
                          !.l = step.l, !.r = step.r, !.ret = step.ret,
                          !.panic = step.panic, !.iters = @ + 1]
    /\ UNCHANGED <<xvars, inv, twice, book, clock>>

\* the loop condition fails: fall out of the loop and return None
FindExit ==
    /\ bs.pc = "loop"
    /\ ~(bs.l < bs.r)
    /\ bs' = [bs EXCEPT !.pc = "done", !.ret = None]
    /\ UNCHANGED <<xvars, inv, twice, book, clock>>

FindNext ==
    \/ FindIterate
    \/ FindExit

SpecFind == FindInit /\ [][FindNext]_vars /\ WF_vars(FindNext)

-----------------------------------------------------------------------------
(* clock : Clock *)

MaxAdds == 2

I32Max == 2147483647

I32Min == -I32Max - 1

MINUTES_IN_DAY == 60 * 24

\* hours, minutes and add_minutes arguments the caller passes
HourArgs == {-25, -1, 0, 1, 24, I32Max}

MinuteArgs == {-1441, -1, 0, 59, 1440, I32Min}

AddArgs == {-1500, -1, 0, 61, I32Max}

\* i32 `+` leaves the range: a panic in a debug build, a wrapped value in a
\* release build
add_overflows(a, b) ==
    \/ (b > 0 /\ a > I32Max - b)
    \/ (b < 0 /\ a < I32Min - b)

\* i32 `* 60` leaves the range
mul60_overflows(a) == a > I32Max \div 60 \/ a < -(I32Max \div 60)

\* i32 `/` : the quotient rounded towards zero (n > 0)
i32_div(a, n) == IF a >= 0 THEN a \div n ELSE (a + (n - 1)) \div n

\* i32 `%` : the remainder takes the sign of the dividend
i32_rem(a, n) == a - n * i32_div(a, n)

\* i32::rem_euclid for n > 0
rem_euclid(a, n) == IF i32_rem(a, n) < 0 THEN i32_rem(a, n) + n ELSE i32_rem(a, n)

ClockOverflow == [overflow |-> TRUE, minutes |-> 0]

\* Clock::new with `%` where the code has rem_euclid
Clock_new_rem(hours, minutes) ==
    IF mul60_overflows(hours) THEN ClockOverflow
    ELSE IF add_overflows(hours * 60, minutes) THEN ClockOverflow
    ELSE [overflow |-> FALSE,
          minutes |-> i32_rem(hours * 60 + minutes, MINUTES_IN_DAY)]

\* Clock::new(hours, minutes)
Clock_new(hours, minutes) ==
    IF mul60_overflows(hours) THEN ClockOverflow
    ELSE IF add_overflows(hours * 60, minutes) THEN ClockOverflow
    ELSE [overflow |-> FALSE,
          minutes |-> rem_euclid(hours * 60 + minutes, MINUTES_IN_DAY)]

\* self.add_minutes(minutes)
add_minutes(self_minutes, minutes) ==
    IF add_overflows(self_minutes, minutes) THEN ClockOverflow
    ELSE Clock_new(0, self_minutes + minutes)

DigitChar == <<"0", "1", "2", "3", "4", "5", "6", "7", "8", "9">>

\* the decimal digits of n >= 0
RECURSIVE Decimal(_)
Decimal(n) ==
    IF n < 10 THEN <<DigitChar[n + 1]>>
    ELSE Decimal(n \div 10) \o <<DigitChar[(n % 10) + 1]>>

\* {:02} of an i32 : sign, then digits zero-padded to a width of two in all
Fmt02(n) ==
    IF n < 0 THEN <<"-">> \o Decimal(-n)
    ELSE IF n < 10 THEN <<"0">> \o Decimal(n)
    ELSE Decimal(n)

\* <Clock as Display>::fmt
Clock_fmt(self_minutes) ==
    Fmt02(i32_div(self_minutes, 60)) \o <<":">> \o Fmt02(i32_rem(self_minutes, 60))

\* let c = Clock::new(h, m)
ClockInit ==
    /\ \E h \in HourArgs : \E m \in MinuteArgs :
         \E c \in {Clock_new(h, m)} :
           clock = [pc |-> IF c.overflow THEN "overflow" ELSE "live",
                    minutes |-> c.minutes, hours0 |-> h, minutes0 |-> m,
                    added |-> <<>>, other |-> 0, hours1 |-> 0, minutes1 |-> 0,
                    eq |-> FALSE, shown |-> <<>>, otherShown |-> <<>>]
    /\ XIdle
    /\ InvIdle
    /\ TwiceIdle
    /\ BookIdle
    /\ FindIdle

\* c = c.add_minutes(d)
AddMinutes ==
    /\ clock.pc = "live"
    /\ Len(clock.added) < MaxAdds
    /\ \E d \in AddArgs :
         \E c \in {add_minutes(clock.minutes, d)} :
           clock' = [clock EXCEPT !.pc = IF c.overflow THEN "overflow" ELSE "live",
                                  !.minutes = c.minutes,
                                  !.added = Append(@, d)]
    /\ UNCHANGED <<xvars, inv, twice, book, bs>>

\* let o = Clock::new(h, m); c == o; c.to_string(); o.to_string()
CompareClocks ==
    /\ clock.pc = "live"
    /\ \E h \in HourArgs : \E m \in MinuteArgs :
         \E o \in {Clock_new(h, m)} :
           /\ ~o.overflow
           /\ clock' = [clock EXCEPT !.pc = "compared",
                                     !.other = o.minutes,
                                     !.hours1 = h, !.minutes1 = m,
                                     !.eq = (clock.minutes = o.minutes),
                                     !.shown = Clock_fmt(clock.minutes),
                                     !.otherShown = Clock_fmt(o.minutes)]
    /\ UNCHANGED <<xvars, inv, twice, book, bs>>

ClockNext ==
    \/ AddMinutes
    \/ CompareClocks

SpecClock == ClockInit /\ [][ClockNext]_vars

-----------------------------------------------------------------------------
(* Xorcism : properties *)

\* the key byte due at absolute position n (0-based) of a munger with key k
Cycled(k, n) == k[(n % Len(k)) + 1]

\* the bytes of a sequence of chunks, in order
RECURSIVE Flatten(_)
Flatten(chunks) ==
    IF Len(chunks) = 0 THEN <<>> ELSE Head(chunks) \o Flatten(Tail(chunks))

\* C1: with a non-empty key, whatever mix of munge_in_place and munge calls
\* processed them, the byte at absolute position n is output as
\* input[n] XOR key[n mod k]; chunked input gives what one in-place call over
\* the whole input gives
C1_KeyCycling ==
    (Len(key) > 0 /\ mode \in {"raw", "lazy"}) =>
        /\ Len(outAll) = Len(inAll)
        /\ \A n1 \in 1..Len(inAll) :
              outAll[n1] = Xor(inAll[n1], Cycled(key, n1 - 1))
        /\ outAll = munge_in_place(key, 0, inAll).data

C1_Witness ==
    /\ key = <<1, 2>>
    /\ mode = "lazy"
    /\ call.op = "munge"
    /\ call.pos0 = 1
    /\ Len(call.res) = 3
    /\ Len(inAll) = 4

\* C2: a caller that re-invokes write with the remainder after every Ok(m)
\* leaves in the sink bytes that a fresh munger on the same key turns back
\* into the original input, and no call reports more than 1024 bytes
C2_WriterRoundTrip ==
    /\ (mode = "writer" /\ Len(key) > 0 /\ wrapPos = 0 /\ Len(pending) = 0) =>
          munge_in_place(key, 0, sink).data = orig
    /\ (call.op = "write" /\ ~call.panic /\ ~IsErr(call.ret)) =>
          call.ret <= 1024

\* C3: with a non-empty key the cursor equals the number of bytes transformed
\* since creation, whichever operations transformed them, and no step
\* decreases it
C3_CursorMonotone ==
    /\ [](Len(key) > 0 => pos = Len(inAll))
    /\ [][pos' >= pos]_vars

C3_Witness ==
    /\ Len(key) > 0
    /\ mode = "writer"
    /\ wrapPos > 0
    /\ call.op = "write"
    /\ call.want = 2
    /\ call.ret = 1
    /\ pos = wrapPos + 2

\* C4: munging a buffer with a munger at cursor 0 and munging the result
\* with a fresh munger on the same key gives back the original buffer
C4_Involution ==
    inv.pc = "done" => inv.buf = inv.orig

C4_Witness ==
    /\ inv.pc = "done"
    /\ Len(inv.key) = 2
    /\ Len(inv.orig) = 3
    /\ inv.pos1 = 3
    /\ inv.pos2 = 3
    /\ inv.buf = inv.orig

\* what a read that got call.ret bytes must have left in the caller's buffer
ReadChunkOk ==
    LET n == call.ret
        before == (Len(src0) - Len(src)) - n IN
    /\ call.ret = call.inner
    /\ pos = call.pos0 + n
    /\ Len(call.res) = Len(call.arg)
    /\ \A j1 \in 1..Len(call.res) :
          call.res[j1] = IF j1 <= n
                         THEN Xor(src0[before + j1], Cycled(key, call.pos0 + j1 - 1))
                         ELSE call.arg[j1]

\* everything delivered so far is the consumed part of the source XORed with
\* the key cycled from the cursor at wrapping time
DeliveredOk ==
    LET got == Flatten(delivered) IN
    /\ Len(got) = Len(src0) - Len(src)
    /\ \A j2 \in 1..Len(got) :
          got[j2] = Xor(src0[j2], Cycled(key, wrapPos + j2 - 1))

ReaderCorrect ==
    (mode = "reader" /\ Len(key) > 0) =>
        /\ DeliveredOk
        /\ (call.op = "read" /\ ~IsErr(call.inner)) => ReadChunkOk

ExampleRead ==
    /\ mode = "reader"
    /\ key = <<1, 2>>
    /\ wrapPos = 0
    /\ src0 = <<5, 10, 15, 20>>
    /\ Len(delivered) = 2
    /\ Len(delivered[1]) = 3
    /\ Len(delivered[2]) = 1

\* C5 as stated: reader correctness, the example [5,10,15,20] read as 3 then
\* 1 bytes with key [1,2] yielding [4,8,13,21]
C5_ReaderAsStated ==
    /\ ReaderCorrect
    /\ ExampleRead => delivered = << <<4, 8, 13>>, <<21>> >>

\* C5: every read transforms exactly buf[..n], leaves the rest of the buffer
\* alone and returns n, and the bytes delivered are the source XORed with the
\* key cycled from the cursor at wrapping time however the source is chunked;
\* [5,10,15,20] read as 3 then 1 bytes with key [1,2] yields [4,8,14,22]
C5_ReaderCorrect ==
    /\ ReaderCorrect
    /\ ExampleRead => delivered = << <<4, 8, 14>>, <<22>> >>

C5_Witness ==
    /\ ExampleRead
    /\ call.op = "read"
    /\ call.arg = <<170, 170>>
    /\ call.res = <<22, 170>>
    /\ call.ret = 1

\* C6: a read whose underlying read fails returns that error, and one whose
\* underlying read yields 0 bytes returns 0; either way the cursor, the
\* caller's buffer and the bytes delivered so far stay as they were
C6_ReaderPassThrough ==
    [][(/\ mode = "reader"
        /\ call'.op = "read"
        /\ (IsErr(call'.inner) \/ call'.inner = 0))
       => (/\ call'.ret = call'.inner
           /\ ~call'.panic
           /\ mode' = "reader"
           /\ pos' = pos
           /\ call'.res = call'.arg
           /\ delivered' = delivered
           /\ src' = src)]_vars

C6_Witness ==
    /\ mode = "reader"
    /\ Len(key) > 0
    /\ call.op = "read"
    /\ IsErr(call.inner)
    /\ call.ret = call.inner
    /\ pos > wrapPos
    /\ Len(src) > 0

\* the key bytes applied to the two passes differ at some position
PhaseDiffers ==
    \E j3 \in 1..Len(twice.data) :
        Cycled(twice.key, twice.pos0 + j3 - 1)
            # Cycled(twice.key, twice.pos0 + Len(twice.data) + j3 - 1)

PairwiseDistinct(k) ==
    \A a1, a2 \in 1..Len(k) : a1 # a2 => k[a1] # k[a2]

C8_LazyOnDemand ==
    (call.op = "munge" /\ Len(key) > 0) =>
        /\ pos = call.pos0 + Len(call.res)
        /\ Len(call.res) <= Len(call.arg)
        /\ \A j4 \in 1..Len(call.res) :
              call.res[j4] = Xor(call.arg[j4], Cycled(key, call.pos0 + j4 - 1))
        /\ mode = "lazy" => iter = Tail_from(call.arg, Len(call.res))

C8_Witness ==
    /\ call.op = "munge"
    /\ mode = "raw"
    /\ Len(key) = 2
    /\ call.pos0 = 1
    /\ Len(call.arg) = 3
    /\ Len(call.res) = 2
    /\ pos = 3

\* C9: a munger with an empty key never hands out a byte: every call that
\* has at least one byte to transform panics
C9_EmptyKeyPanics ==
    Len(key) = 0 =>
        /\ Len(outAll) = 0
        /\ Len(sink) = 0
        /\ Len(delivered) = 0
        /\ pos = 0
        /\ call.op = "munge" => Len(call.res) = 0
        /\ call.want > 0 => (call.panic /\ mode = "panicked")

C9_Witness ==
    /\ Len(key) = 0
    /\ call.op = "read"
    /\ call.want = 2
    /\ call.panic
    /\ mode = "panicked"

-----------------------------------------------------------------------------
(* book-store : properties *)

\* price of a group of n distinct titles
DiscountedPrice == <<800, 1520, 2160, 2560, 3000>>

MinOf(S) == CHOOSE x \in S : \A y \in S : x <= y

\* the cheapest way to split the counts cv into groups of distinct titles:
\* the group holding a copy of the lowest remaining title takes any subset
\* of the other remaining titles
RECURSIVE BestPartition(_)
BestPartition(cv) ==
    IF \A t \in Titles : cv[t] = 0 THEN 0
    ELSE LET t0 == MinOf({t \in Titles : cv[t] > 0})
             others == {t \in Titles : t > t0 /\ cv[t] > 0}
         IN MinOf({DiscountedPrice[1 + Cardinality(G)]
                     + BestPartition([t \in Titles |->
                           IF t = t0 \/ t \in G THEN cv[t] - 1 ELSE cv[t]]) :
                   G \in SUBSET others})

CountsOf(books) == [t \in Titles |-> Cardinality({i \in 1..Len(books) : books[i] = t})]

\* C10: lowest_price returns the minimum total price over all partitions of
\* the basket into groups of pairwise distinct titles, and 0 for the empty
\* basket
C10_Optimal ==
    book.pc = "done" =>
        /\ book.price = BestPartition(CountsOf(book.books))
        /\ (book.books = <<>> => book.price = 0)

\* the basket 1,1,2,2,3,3,4,5 : two groups of four (5120) beat five plus
\* three (5160)
C10_Witness ==
    /\ book.pc = "done"
    /\ book.books = <<1, 1, 2, 2, 3, 3, 4, 5>>
    /\ book.price = 5120

-----------------------------------------------------------------------------
(* binary-search : properties *)

IsSorted(a) == \A i1 \in 1..Len(a) : \A i2 \in i1..Len(a) : a[i1] <= a[i2]

Occurs(a, k) == \E i1 \in 1..Len(a) : a[i1] = k

\* what find returned is right for a sorted array
FindResultOk ==
    (bs.pc = "done" /\ IsSorted(bs.ary)) =>
        /\ ~bs.panic
        /\ Occurs(bs.ary, bs.key) =>
             \E i1 \in 0..(Len(bs.ary) - 1) :
                 bs.ret = Some(i1) /\ bs.ary[i1 + 1] = bs.key
        /\ ~Occurs(bs.ary, bs.key) => bs.ret = None

\* 0 <= l <= r <= len
FindBounds == 0 <= bs.l /\ bs.l <= bs.r /\ bs.r <= Len(bs.ary)

\* an iteration that does not return leaves a strictly shorter interval
FindShrinks ==
    (bs.pc = "loop" /\ bs'.pc = "loop") => (bs'.r - bs'.l < bs.r - bs.l)

\* C11: for every ascending array and every key, find terminates and returns
\* Some(i) with array[i] = key when the key occurs and None when it does not
\* (the empty array included); 0 <= l <= r <= len holds throughout and r - l
\* strictly shrinks on every iteration that does not return
C11_BinarySearch ==
    /\ [](FindResultOk /\ FindBounds)
    /\ [][FindShrinks]_vars
    /\ <>(bs.pc = "done")

\* a key found in a sorted array of four elements on the third iteration
C11_Witness ==
    /\ bs.pc = "done"
    /\ IsSorted(bs.ary)
    /\ Len(bs.ary) = 4
    /\ bs.iters = 3
    /\ bs.ret = Some(0)
    /\ bs.ary[1] = bs.key

-----------------------------------------------------------------------------
(* clock : properties *)

RECURSIVE ResidueSum(_)
ResidueSum(ds) ==
    IF Len(ds) = 0 THEN 0
    ELSE (ds[1] % 1440) + ResidueSum(Tail(ds))

\* (h * 60 + m + the sum of ds) mod 1440, non-negative; summed over residues
\* so that the intermediate values stay small
TimeOfDay(h, m, ds) == (((h % 24) * 60) + (m % 1440) + ResidueSum(ds)) % 1440

\* zero-padded HH:MM of a time of day t in 0..1439
HHMM(t) ==
    <<DigitChar[((t \div 60) \div 10) + 1], DigitChar[((t \div 60) % 10) + 1], ":",
      DigitChar[((t % 60) \div 10) + 1], DigitChar[((t % 60) % 10) + 1]>>

\* C12: after Clock::new(h, m) and any sequence of add_minutes calls that
\* stays clear of i32 overflow, the stored minutes are in 0..1439 and equal
\* (h*60 + m + the minutes added) mod 1440; two clocks denoting the same time
\* of day compare equal and display as the same zero-padded HH:MM
C12_ClockNormalised ==
    /\ clock.pc \in {"live", "compared"} =>
         /\ clock.minutes \in 0..1439
         /\ clock.minutes = TimeOfDay(clock.hours0, clock.minutes0, clock.added)
    /\ (/\ clock.pc = "compared"
        /\ TimeOfDay(clock.hours1, clock.minutes1, <<>>)
             = TimeOfDay(clock.hours0, clock.minutes0, clock.added)) =>
         /\ clock.eq
         /\ clock.shown = clock.otherShown
         /\ clock.shown = HHMM(TimeOfDay(clock.hours0, clock.minutes0, clock.added))

\* one minute before midnight, minus 1500 minutes, plus 61 minutes is
\* midnight, which equals and prints like the clock made from 24 hours
C12_Witness ==
    /\ clock.pc = "compared"
    /\ clock.hours0 = 0 /\ clock.minutes0 = -1
    /\ clock.added = <<-1500, 61>>
    /\ clock.hours1 = 24 /\ clock.minutes1 = 0
    /\ clock.eq
    /\ clock.shown = <<"0", "0", ":", "0", "0">>
    /\ clock.otherShown = <<"0", "0", ":", "0", "0">>

====
